---- MODULE Spec2Model ----
(***************************************************************************)
(* WikiScraper: the recursive word-count crawl of ScraperManager.scrape    *)
(* (src/src/manager.py), the page fetches of WikiScraper                   *)
(* (src/src/scraper.py) and the persistent word-count store of             *)
(* DataAnalyzer.update_word_counts (src/src/data_analysis.py).             *)
(*                                                                         *)
(* Strings are sequences of one-character strings, so that str.replace,    *)
(* str.split, str.strip and str.lower are computed character by character. *)
(* The wiki is the environment.  Under Spec and FairSpec the outcome of    *)
(* every HTTP request and the links found on a page are chosen when the    *)
(* request is made.  Under SiteSpec every request succeeds and the link    *)
(* graph is fixed in site from the start.  Under StoreSpec the program is  *)
(* run repeatedly, with --count-words on a page whose text is text or with *)
(* --analyze-relative-word-frequency.  Under ScraperSpec one method of a   *)
(* WikiScraper in web or local mode is called on a page whose markup is    *)
(* html_content.  The model assumes that word-counts.json can be opened    *)
(* for writing.                                                            *)
(***************************************************************************)
EXTENDS Integers, Sequences, FiniteSets, TLC

VARIABLES
    args,      \* argparse Namespace: count_words, auto_count_words, depth, wait
    pc,        \* position of the program in ScraperManager.scrape
    cur,       \* (current_phrase, current_depth) of the node in work
    queue,     \* the list `queue` of (phrase, depth)
    visited,   \* the set `visited`
    site,      \* the link graph of the wiki: page name -> links of the page
    file,      \* word-counts.json on disk
    file0,     \* word-counts.json as it was when the program started
    log,       \* observable events of the run, in order
    text,      \* the text of the page requested with --count-words
    scraper,   \* the WikiScraper object: use_local_file, local_file_path
    html_content, \* the markup _get_soup parses: its tables and its hrefs
    result,    \* what the call of a WikiScraper method returned
    exit_code  \* the exit status of the program, Running until it exits

vars == <<args, pc, cur, queue, visited, site, file, file0, log, text,
          scraper, html_content, result, exit_code>>

----------------------------------------------------------------------------
(* Bounds *)

MaxLinks == 2
MaxDepth == 2
MaxRuns == 2
MaxLen == 4
MaxTables == 2

----------------------------------------------------------------------------
(* Strings *)

\* str.replace(old, new) for one-character old and new
Replace(s, old, new) == [i \in 1..Len(s) |-> IF s[i] = old THEN new ELSE s[i]]

Whitespace == {" ", "\n"}

\* the argument of raw_word.strip(...), data_analysis.py line 119
StripChars == {".", ",", "!", "?", ";", ":", "(", ")", "[", "]", "\"", "'"}

LowerChar(c) == CASE c = "A" -> "a"
                  [] c = "B" -> "b"
                  [] OTHER -> c

\* str.lower()
Lower(s) == [i \in 1..Len(s) |-> LowerChar(s[i])]

RECURSIVE LStrip(_)
LStrip(s) == IF s # <<>> /\ Head(s) \in StripChars THEN LStrip(Tail(s)) ELSE s

RECURSIVE RStrip(_)
RStrip(s) == IF s # <<>> /\ s[Len(s)] \in StripChars
             THEN RStrip(SubSeq(s, 1, Len(s) - 1)) ELSE s

StripLeft(s) == LStrip(s)

\* str.strip(chars): removes leading and trailing characters of the set
Strip(s) == RStrip(LStrip(s))

\* str.split() with no argument: runs of whitespace separate, no empty tokens
RECURSIVE SplitFrom(_, _, _, _)
SplitFrom(s, i, tok, acc) ==
    IF i > Len(s)
    THEN IF tok = <<>> THEN acc ELSE Append(acc, tok)
    ELSE IF s[i] \in Whitespace
         THEN SplitFrom(s, i + 1, <<>>, IF tok = <<>> THEN acc ELSE Append(acc, tok))
         ELSE SplitFrom(s, i + 1, Append(tok, s[i]), acc)

Split(s) == SplitFrom(s, 1, <<>>, <<>>)

----------------------------------------------------------------------------
(* The word-count store, data_analysis.py *)

EmptyDict == [w \in {} |-> 0]

NoFile == [state |-> "absent", data |-> EmptyDict]
CorruptFile == [state |-> "corrupt", data |-> EmptyDict]
ValidFile(d) == [state |-> "valid", data |-> d]

LoadCountsFresh(f) == EmptyDict

\* lines 100-109: os.path.exists, json.load, JSONDecodeError
LoadCounts(f) == IF f.state = "valid" THEN f.data ELSE EmptyDict

\* lines 129-132
Increment(d, w) ==
    IF w \in DOMAIN d
    THEN [d EXCEPT ![w] = @ + 1]
    ELSE [x \in (DOMAIN d) \cup {w} |-> IF x = w THEN 1 ELSE d[x]]

\* lines 116-132: the loop over the raw words
RECURSIVE CountWords(_, _)
CountWords(d, words) ==
    IF words = <<>> THEN d
    ELSE LET word == Lower(Strip(Head(words)))
         IN  IF word = <<>>
             THEN CountWords(d, Tail(words))
             ELSE CountWords(Increment(d, word), Tail(words))

\* lines 134-138: json.dump of the whole dictionary
SaveCounts(d) == ValidFile(d)

update_word_counts_unsaved(f, t) == f

\* DataAnalyzer.update_word_counts: the file after the call.  word_counts
\* and words are bound to their values once, as the two local variables are.
update_word_counts(f, t) ==
    CHOOSE saved \in {SaveCounts(CountWords(word_counts, words)) :
                         word_counts \in {LoadCounts(f)}, words \in {Split(t)}} : TRUE

----------------------------------------------------------------------------
(* The wiki *)

A == <<"A">>
B == <<"B">>
M_L == <<"M", "_", "L">>
M__L == <<"M", " ", "L">>

\* names of the pages of the wiki, as they appear in hrefs
PageNames == {A, B, M_L}

\* phrases a user may give on the command line
Phrases == PageNames \cup {M__L}

\* scraper.py lines 42-43: the page requested for a phrase
formatted_phrase(phrase) == Replace(phrase, " ", "_")

\* content_div.get_text of each page
PageText(name) == CASE name = A -> <<"A", ".", " ", "a">>
                    [] name = M_L -> <<"b", " ", "a", "!">>
                    [] OTHER -> <<>>

\* the possible results of get_internal_links on a page
LinkLists == UNION {[1..n -> PageNames] : n \in 0..MaxLinks}

Outcomes == {"ok", "not_found", "error"}

\* what _get_soup hands back: the parsed page, or None after a 404 and after
\* a request error alike
Soup(out) == IF out = "ok" THEN "ok" ELSE "none"

Event(ev, phrase, n, out) == [ev |-> ev, phrase |-> phrase, n |-> n, out |-> out]

----------------------------------------------------------------------------
(* ScraperManager.scrape, branch 4 *)

None == <<>>

NoNode == <<None, 0>>

\* manager.py line 37: WikiScraper(self.BASE_URL), a scraper in web mode
WebScraper == [use_local_file |-> FALSE, local_file_path |-> None]

\* no markup was parsed
NoPage == [tables |-> <<>>, hrefs |-> <<>>]

\* the process has not exited: no exit status, which is 0..255, is set
Running == -1

ExitStatusZero(how) == 0

\* wiki_scraper.py lines 23-48, the exit status of main: sys.exit(0) after
\* a KeyboardInterrupt, sys.exit(1) after any other Exception, and 0 when
\* main runs off its end
ExitStatus(how) == CASE how = "KeyboardInterrupt" -> 0
                     [] how = "Exception" -> 1
                     [] OTHER -> 0

AlreadyVisitedNever(phrase, v) == FALSE

\* line 100
AlreadyVisited(phrase, v) == phrase \in v

BelowMaxDepthInclusive(depth, max) == depth <= max

\* line 113
BelowMaxDepth(depth, max) == depth < max

QueueHasTwo(q) == Len(q) > 1

\* line 122
QueueNotEmpty(q) == q # <<>>

RestKeepsFront(q) == q

\* line 97: queue.pop(0) leaves the rest
Rest(q) == Tail(q)

RECURSIVE EnqueueAll(_, _, _, _)
EnqueueAll(q, links, v, depth) ==
    IF links = <<>> THEN q
    ELSE EnqueueAll(Append(q, <<Head(links), depth + 1>>), Tail(links), v, depth)

RECURSIVE EnqueueFront(_, _, _, _)
EnqueueFront(q, links, v, depth) ==
    IF links = <<>> THEN q
    ELSE EnqueueFront(IF Head(links) \notin v THEN <<<<Head(links), depth + 1>>>> \o q ELSE q,
                      Tail(links), v, depth)

\* lines 116-118
RECURSIVE Enqueue(_, _, _, _)
Enqueue(q, links, v, depth) ==
    IF links = <<>> THEN q
    ELSE Enqueue(IF Head(links) \notin v THEN Append(q, <<Head(links), depth + 1>>) ELSE q,
                 Tail(links), v, depth)

\* lines 120-123, and the loop condition of line 96 when there is no wait
AfterNode(q) == IF QueueNotEmpty(q) THEN "sleep" ELSE "loop"

Seeds == Phrases
Depths == 0..MaxDepth
Waits == {1}
InitFiles == {NoFile, CorruptFile, ValidFile((<<"a">> :> 1))}

\* the store a crawl starts from; an unreadable store is read as empty,
\* like a missing one, and is started from under StoreSpec
CrawlFiles == InitFiles \ {CorruptFile}

\* wiki_scraper.py main and manager.py lines 88-94: the program was started
\* with --auto-count-words; the wiki is not known in advance
Init ==
    /\ args \in [count_words : {None}, auto_count_words : Seeds, depth : Depths,
                 wait : Waits, analyze_relative_word_frequency : {FALSE}]
    /\ pc = "loop"
    /\ cur = NoNode
    /\ queue = <<<<args.auto_count_words, 0>>>>
    /\ visited = {}
    /\ site = EmptyDict
    /\ file \in CrawlFiles
    /\ file0 = file
    /\ log = <<>>
    /\ text = <<>>
    /\ scraper = WebScraper
    /\ html_content = NoPage
    /\ result = None
    /\ exit_code = Running

\* lines 96-105: pop the front; skip a visited phrase, else start the node
Dequeue ==
    /\ pc = "loop"
    /\ queue # <<>>
    /\ LET current_phrase == queue[1][1]
           current_depth == queue[1][2]
       IN  /\ queue' = Rest(queue)
           /\ IF AlreadyVisited(current_phrase, visited)
              THEN UNCHANGED <<pc, cur, visited, log>>
              ELSE /\ visited' = visited \cup {current_phrase}
                   /\ cur' = <<current_phrase, current_depth>>
                   /\ log' = Append(log, Event("process", current_phrase, current_depth, ""))
                   /\ pc' = "get_text"
    /\ UNCHANGED <<args, site, file, file0, text, scraper, html_content, result, exit_code>>

\* line 96: the queue is empty, the loop ends, scrape returns and main
\* (wiki_scraper.py lines 36-39) runs off its end: exit status 0
Finish ==
    /\ pc = "loop"
    /\ queue = <<>>
    /\ pc' = "done"
    /\ exit_code' = ExitStatus("returned")
    /\ UNCHANGED <<args, cur, queue, visited, site, file, file0, log, text, scraper, html_content, result>>

\* lines 108-113: scraper.get_text with the given outcome of the request,
\* then analyzer.update_word_counts on a non-empty text
GetTextStep(out) ==
    /\ pc = "get_text"
    /\ LET t == IF out = "ok" THEN PageText(formatted_phrase(cur[1])) ELSE <<>>
           fetched == Append(log, Event("get_text", cur[1], 0, Soup(out)))
       IN  /\ IF t # <<>>
              THEN /\ file' = update_word_counts(file, t)
                   /\ log' = Append(fetched, Event("merge", cur[1], 0, ""))
              ELSE /\ file' = file
                   /\ log' = fetched
           /\ pc' = IF BelowMaxDepth(cur[2], args.depth) THEN "get_links" ELSE AfterNode(queue)
    /\ UNCHANGED <<args, cur, queue, visited, site, file0, text, scraper, html_content, result, exit_code>>

\* lines 114-118: scraper.get_internal_links with the given outcome of the
\* request and the given links on the page, then the enqueueing of the links
GetLinksStep(out, links) ==
    /\ pc = "get_links"
    /\ LET new_links == IF out = "ok" THEN links ELSE <<>>
       IN  /\ log' = Append(log, Event("get_links", cur[1], 0, Soup(out)))
           /\ queue' = Enqueue(queue, new_links, visited, cur[2])
           /\ pc' = AfterNode(queue')
    /\ UNCHANGED <<args, cur, visited, site, file, file0, text, scraper, html_content, result, exit_code>>

GetText == pc = "get_text" /\ \E out \in Outcomes : GetTextStep(out)

GetLinks ==
    /\ pc = "get_links"
    /\ \/ \E links \in LinkLists : GetLinksStep("ok", links)
       \/ \E out \in Outcomes \ {"ok"} : GetLinksStep(out, <<>>)

\* line 123: time.sleep(self.args.wait)
Sleep ==
    /\ pc = "sleep"
    /\ log' = Append(log, Event("sleep", <<>>, args.wait, ""))
    /\ pc' = "loop"
    /\ UNCHANGED <<args, cur, queue, visited, site, file, file0, text, scraper, html_content, result, exit_code>>

\* wiki_scraper.py lines 41-44: Ctrl+C while the program blocks in a
\* request or in time.sleep ends the program with sys.exit(0)
Interrupt ==
    /\ pc \in {"get_text", "get_links", "sleep"}
    /\ pc' = "interrupted"
    /\ exit_code' = ExitStatus("KeyboardInterrupt")
    /\ UNCHANGED <<args, cur, queue, visited, site, file, file0, log, text, scraper, html_content, result>>

Crawl == Dequeue \/ Finish \/ GetText \/ GetLinks \/ Sleep

Next == Crawl \/ Interrupt

Spec == Init /\ [][Next]_vars

\* the store does not exist yet
FairInit == Init /\ file = NoFile

\* the crawl is not interrupted and the program keeps running
FairSpec == FairInit /\ [][Crawl]_vars /\ WF_vars(Crawl)

----------------------------------------------------------------------------
(* The crawl of a wiki whose link graph is fixed and whose requests succeed *)

\* the link graphs.  B is a page without content div: get_text finds no
\* text on it (scraper.py lines 147-149) and get_internal_links no links
\* (lines 170-171)
Sites == {s \in [PageNames -> LinkLists] : s[B] = <<>>}

SiteInit ==
    /\ args \in [count_words : {None}, auto_count_words : Seeds, depth : Depths,
                 wait : Waits, analyze_relative_word_frequency : {FALSE}]
    /\ pc = "loop"
    /\ cur = NoNode
    /\ queue = <<<<args.auto_count_words, 0>>>>
    /\ visited = {}
    /\ site \in Sites
    /\ file = ValidFile((<<"a">> :> 1))
    /\ file0 = file
    /\ log = <<>>
    /\ text = <<>>
    /\ scraper = WebScraper
    /\ html_content = NoPage
    /\ result = None
    /\ exit_code = Running

GetTextOk == pc = "get_text" /\ GetTextStep("ok")

GetLinksOk == pc = "get_links" /\ GetLinksStep("ok", site[formatted_phrase(cur[1])])

SiteNext == Dequeue \/ Finish \/ GetTextOk \/ GetLinksOk \/ Sleep

SiteSpec == SiteInit /\ [][SiteNext]_vars

----------------------------------------------------------------------------
(* Program runs with --count-words, manager.py branch 3, or with           *)
(* --analyze-relative-word-frequency, manager.py branch 5                  *)

Alphabet == {"a", "A", ".", "'", " ", "\n"}

Texts == UNION {[1..n -> Alphabet] : n \in 0..MaxLen}

Runs(l) == Cardinality({i \in 1..Len(l) : l[i].ev \in {"get_text", "analyze"}})

\* the command line --count-words A
CountArgs == [count_words |-> A, auto_count_words |-> None, depth |-> None,
              wait |-> None, analyze_relative_word_frequency |-> FALSE]

\* the command line --analyze-relative-word-frequency --mode .. --count ..
AnalyzeArgs == [count_words |-> None, auto_count_words |-> None, depth |-> None,
                wait |-> None, analyze_relative_word_frequency |-> TRUE]

StoreInit ==
    /\ args \in {CountArgs, AnalyzeArgs}
    /\ pc = IF args.analyze_relative_word_frequency THEN "analyze" ELSE "count_words"
    /\ cur = NoNode
    /\ queue = <<>>
    /\ visited = {}
    /\ site = EmptyDict
    /\ file \in InitFiles
    /\ file0 = file
    /\ log = <<>>
    /\ text \in IF args.analyze_relative_word_frequency THEN {<<>>} ELSE Texts
    /\ scraper = WebScraper
    /\ html_content = NoPage
    /\ result = None
    /\ exit_code = Running

\* manager.py lines 75-85, one run of the program: scraper.get_text and,
\* on a non-empty text, analyzer.update_word_counts
CountWordsRun ==
    /\ pc = "count_words"
    /\ Runs(log) < MaxRuns
    /\ \E out \in Outcomes :
         LET t == IF out = "ok" THEN text ELSE <<>>
             fetched == Append(log, Event("get_text", args.count_words, 0, Soup(out)))
         IN  IF t # <<>>
             THEN /\ file' = update_word_counts(file, t)
                  /\ log' = Append(fetched, Event("merge", args.count_words, 0, ""))
             ELSE /\ file' = file
                  /\ log' = fetched
    /\ exit_code' = ExitStatus("returned")
    /\ UNCHANGED <<args, pc, cur, queue, visited, site, file0, text, scraper, html_content, result>>

\* data_analysis.py lines 150-155: the load of generate_frequency_chart.
\* Without a file the method returns; json.load of an unreadable file
\* raises JSONDecodeError, which nothing catches before main
LoadWikiData(f) == IF f.state = "corrupt" THEN "raised" ELSE "ok"

\* manager.py lines 126-133 and wiki_scraper.py lines 36-48, one run of the
\* program: generate_frequency_chart; an exception reaches main's
\* `except Exception` and the program ends with sys.exit(1)
AnalyzeRun ==
    /\ pc = "analyze"
    /\ Runs(log) < MaxRuns
    /\ LET loaded == LoadWikiData(file)
       IN  /\ log' = Append(log, Event("analyze", None, 0, loaded))
           /\ exit_code' = ExitStatus(IF loaded = "raised" THEN "Exception" ELSE "returned")
    /\ UNCHANGED <<args, pc, cur, queue, visited, site, file, file0, text, scraper, html_content, result>>

\* wiki_scraper.py lines 41-44: Ctrl+C while a run blocks in the request of
\* line 79; the runs end there
InterruptedRun ==
    /\ pc = "count_words"
    /\ Runs(log) < MaxRuns
    /\ pc' = "interrupted"
    /\ exit_code' = ExitStatus("KeyboardInterrupt")
    /\ UNCHANGED <<args, cur, queue, visited, site, file, file0, log, text, scraper, html_content, result>>

StoreNext == CountWordsRun \/ AnalyzeRun \/ InterruptedRun

StoreSpec == StoreInit /\ [][StoreNext]_vars

----------------------------------------------------------------------------
(* Calls of WikiScraper.get_table and WikiScraper.get_internal_links on a  *)
(* scraper in web mode or in local mode, scraper.py                        *)

\* line 179: the prefix of the hrefs that stay on the site
Prefix == <<"/", "w", "i", "k", "i", "/">>

\* str.startswith(prefix)
StartsWith(s, prefix) == Len(s) >= Len(prefix) /\ SubSeq(s, 1, Len(prefix)) = prefix

\* c in s, for a character c
Contains(s, c) == \E i \in 1..Len(s) : s[i] = c

\* str.replace(old, new) for a non-empty old: every occurrence of old, found
\* from left to right without overlap, becomes new
RECURSIVE ReplaceAll(_, _, _)
ReplaceAll(s, old, new) ==
    IF Len(s) < Len(old) THEN s
    ELSE IF SubSeq(s, 1, Len(old)) = old
         THEN new \o ReplaceAll(SubSeq(s, Len(old) + 1, Len(s)), old, new)
         ELSE <<Head(s)>> \o ReplaceAll(Tail(s), old, new)

\* lines 174-182: the loop over the anchors of the content div
RECURSIVE CollectLinks(_, _)
CollectLinks(hrefs, links) ==
    IF hrefs = <<>> THEN links
    ELSE LET href == Head(hrefs)
         IN  IF StartsWith(href, Prefix) /\ ~Contains(href, ":")
             THEN CollectLinks(Tail(hrefs), Append(links, ReplaceAll(href, Prefix, <<>>)))
             ELSE CollectLinks(Tail(hrefs), links)

\* get_internal_links, lines 160-184, for the soup of the page; a page
\* without content div has no hrefs
get_internal_links(soup, markup) ==
    IF soup = "none" THEN <<>> ELSE CollectLinks(markup.hrefs, <<>>)

TableIndexSame(table_number) == table_number

\* line 121
TableIndex(table_number) == table_number - 1

\* get_table, lines 107-128; tables[index] of a Python list is the element
\* index + 1 of the sequence
get_table(soup, markup, table_number) ==
    IF soup = "none" THEN None
    ELSE LET tables == markup.tables
             index == TableIndex(table_number)
         IN  IF tables = <<>> THEN None
             ELSE IF index < 0 \/ index >= Len(tables) THEN None
             ELSE tables[index + 1]

\* hrefs of anchors: /wiki/A, /wiki/M_L, /wiki/F:A, /A, x/wiki/A and
\* /wiki/A/wiki/B
Hrefs == {Prefix \o A, Prefix \o M_L, Prefix \o <<"F", ":", "A">>, <<"/", "A">>,
          <<"x">> \o Prefix \o A, Prefix \o A \o Prefix \o B}

\* the markup of a table, str(tables[index])
Tables == {<<"T", "1">>, <<"T", "2">>}

Pages == [tables : UNION {[1..n -> Tables] : n \in 0..MaxTables},
          hrefs : UNION {[1..n -> Hrefs] : n \in 0..MaxLinks}]

\* --number is an int
Numbers == -1..(MaxTables + 1)

\* the file the local scraper is given; it holds the markup html_content
LocalFile == <<"f">>

\* lines 12-22: the scrapers the constructor builds
Scrapers == {WebScraper} \cup [use_local_file : {TRUE}, local_file_path : {None, LocalFile}]

NoArgs == [count_words |-> None, auto_count_words |-> None, depth |-> None,
           wait |-> None, analyze_relative_word_frequency |-> FALSE]

ScraperInit ==
    /\ args = NoArgs
    /\ pc = "call"
    /\ cur = NoNode
    /\ queue = <<>>
    /\ visited = {}
    /\ site = EmptyDict
    /\ file = NoFile
    /\ file0 = file
    /\ log = <<>>
    /\ text = <<>>
    /\ scraper \in Scrapers
    /\ html_content \in Pages
    /\ result = None
    /\ exit_code = Running

\* _get_soup, lines 24-61: "raised" for the FileNotFoundError of line 34,
\* else what Soup says of the request; in local mode no request is made and
\* the markup of the file is parsed
get_soup(out) ==
    IF scraper.use_local_file
    THEN IF scraper.local_file_path = None THEN "raised" ELSE "ok"
    ELSE Soup(out)

\* lines 36-37: the file a fetch in local mode opens
Opened(phrase) ==
    IF scraper.use_local_file /\ scraper.local_file_path # None
    THEN <<Event("open", phrase, 0, scraper.local_file_path)>>
    ELSE <<>>

\* scraper.get_table(phrase, table_number)
GetTable ==
    /\ pc = "call"
    /\ \E phrase \in {A, M__L}, table_number \in Numbers, out \in Outcomes :
         LET soup == get_soup(out)
         IN  /\ log' = log \o Opened(phrase) \o
                           <<Event("get_table", phrase, table_number, soup)>>
             /\ pc' = IF soup = "raised" THEN "raised" ELSE "returned"
             /\ result' = IF soup = "raised" THEN None
                          ELSE get_table(soup, html_content, table_number)
    /\ UNCHANGED <<args, cur, queue, visited, site, file, file0, text, scraper, html_content, exit_code>>

\* scraper.get_internal_links(phrase)
GetInternalLinks ==
    /\ pc = "call"
    /\ \E phrase \in {A, M__L}, out \in Outcomes :
         LET soup == get_soup(out)
         IN  /\ log' = log \o Opened(phrase) \o
                           <<Event("get_internal_links", phrase, 0, soup)>>
             /\ pc' = IF soup = "raised" THEN "raised" ELSE "returned"
             /\ result' = IF soup = "raised" THEN None
                          ELSE get_internal_links(soup, html_content)
    /\ UNCHANGED <<args, cur, queue, visited, site, file, file0, text, scraper, html_content, exit_code>>

ScraperNext == GetTable \/ GetInternalLinks

ScraperSpec == ScraperInit /\ [][ScraperNext]_vars

----------------------------------------------------------------------------
(* Reading the event log *)

Events(ev) == {i \in 1..Len(log) : log[i].ev = ev}

Processed == Events("process")

Fetches == Events("get_text") \cup Events("get_links")

Sleeps == Events("sleep")

\* i and j are two events of the set with no event of the set between them
Successive(set, i, j) ==
    /\ i \in set /\ j \in set /\ i < j
    /\ \A k \in set : ~(i < k /\ k < j)

WaitBetween(i, j) == \E k \in Sleeps : i < k /\ k < j /\ log[k].n = args.wait

Crawling == args.auto_count_words # None

----------------------------------------------------------------------------
(* Claims about the crawl *)

\* C1: with max depth D every processed node has depth <= D and no node of
\* depth D has its links fetched or enqueued (every queue entry has depth
\* <= D); with D = 0 only the seed is processed and the queue, which starts
\* as the seed alone, never holds anything else.
DepthBound ==
    Crawling =>
        /\ \A i \in Processed : log[i].n <= args.depth
        /\ \A k \in 1..Len(queue) : queue[k][2] <= args.depth
        /\ \A i \in Events("get_links") :
               \E j \in Processed : /\ j < i
                                    /\ log[j].phrase = log[i].phrase
                                    /\ log[j].n < args.depth
        /\ args.depth = 0 =>
               /\ \A i \in Processed : log[i].phrase = args.auto_count_words
               /\ Events("get_links") = {}
               /\ queue \in {<<>>, <<<<args.auto_count_words, 0>>>>}

\* a crawl of depth 2 has processed a node at depth 2 and is done
DepthBoundWitness ==
    /\ pc = "done"
    /\ args.depth = 2
    /\ \E i \in Processed : log[i].n = 2
    /\ \E i \in Events("get_links") : TRUE

\* C2: no phrase is processed, fetched for its text or merged more than
\* once in a run, and the visited set only grows.
NoReprocessing ==
    /\ [](\A i, j \in Processed \cup Events("get_text") \cup Events("merge") :
             (i # j /\ log[i].ev = log[j].ev) => log[i].phrase # log[j].phrase)
    /\ [][visited \subseteq visited']_vars

\* a visited phrase was dequeued again and skipped
NoReprocessingWitness ==
    /\ pc = "loop"
    /\ queue # <<>>
    /\ queue[1][1] \in visited
    /\ Cardinality(Processed) >= 2

\* C3: between the processing of two successively processed pages a wait of
\* args.wait occurs, so N processed pages see at least N-1 waits.
PacingLowerBound ==
    Crawling =>
        LET nodes == Processed
            waits == {k \in Sleeps : log[k].n = args.wait}
        IN  /\ \A i, j \in nodes :
                   (i < j /\ \A k \in nodes : ~(i < k /\ k < j)) =>
                       \E k \in waits : i < k /\ k < j
            /\ Cardinality(waits) >= Cardinality(nodes) - 1

\* three pages were processed
PacingLowerBoundWitness ==
    /\ pc = "done"
    /\ Cardinality(Processed) >= 3
    /\ Cardinality(Sleeps) >= 2

\* C4: when the run has ended, no wait lies after the last processed node.
NoTrailingWait ==
    (Crawling /\ pc = "done") =>
        \A i \in Processed : \A k \in Sleeps : k > i => \E j \in Processed : j > k

\* C5: between two consecutive requests to the site a wait of args.wait
\* elapses.
RequestPacing ==
    Crawling =>
        \A i, j \in Fetches : Successive(Fetches, i, j) => WaitBetween(i, j)

----------------------------------------------------------------------------
(* What a merge is to add to the store, stated without the program's loops *)

Punctuation == {".", ",", "!", "?", ";", ":", "(", ")", "[", "]", "\"", "'"}

\* the maximal runs of non-whitespace characters of t, as <<first, last>>
TokenSpans(t) ==
    {sp \in (1..Len(t)) \X (1..Len(t)) :
        /\ sp[1] <= sp[2]
        /\ \A k \in sp[1]..sp[2] : t[k] \notin Whitespace
        /\ (sp[1] = 1 \/ t[sp[1] - 1] \in Whitespace)
        /\ (sp[2] = Len(t) \/ t[sp[2] + 1] \in Whitespace)}

\* the token from its first to its last character that is no punctuation,
\* in lower case; empty when the token is punctuation only
Normal(tok) ==
    LET keep == {k \in 1..Len(tok) : tok[k] \notin Punctuation}
    IN  IF keep = {} THEN <<>>
        ELSE LET first == CHOOSE k \in keep : \A m \in keep : k <= m
                 last == CHOOSE k \in keep : \A m \in keep : k >= m
             IN  [k \in 1..(last - first + 1) |-> LowerChar(tok[first + k - 1])]

WordAt(t, sp) == Normal(SubSeq(t, sp[1], sp[2]))

Occurrences(w, t) == Cardinality({sp \in TokenSpans(t) : WordAt(t, sp) = w})

WordsIn(t) == {WordAt(t, sp) : sp \in TokenSpans(t)} \ {<<>>}

Count(d, w) == IF w \in DOMAIN d THEN d[w] ELSE 0

\* the store d after t was merged k times
Merged(d, t, k) ==
    [w \in (DOMAIN d) \cup (IF k > 0 THEN WordsIn(t) ELSE {}) |->
        Count(d, w) + k * Occurrences(w, t)]

\* the counts a store file holds; a missing or unreadable file holds none
Store(f) == IF f.state = "valid" THEN f.data ELSE [w \in {} |-> 0]

\* what one merge of the text of each page adds to the store
PageCounts ==
    [name \in PageNames |-> Merged([w \in {} |-> 0], PageText(name), 1)]

Sum(d, c) == [w \in (DOMAIN d) \cup (DOMAIN c) |-> Count(d, w) + Count(c, w)]

\* the store d after the texts of the merge events i..Len(log) were merged
RECURSIVE MergedFrom(_, _)
MergedFrom(d, i) ==
    IF i > Len(log) THEN d
    ELSE IF log[i].ev = "merge"
         THEN MergedFrom(Sum(d, PageCounts[Replace(log[i].phrase, " ", "_")]), i + 1)
         ELSE MergedFrom(d, i + 1)

----------------------------------------------------------------------------
(* Claims about termination, completeness and the store *)

InQueue(p) == \E k \in 1..Len(queue) : queue[k][1] = p

WasProcessed(p) == \E i \in Processed : log[i].phrase = p

\* C6: whatever the links and the outcomes of the requests, the crawl
\* reaches the empty queue and ends there, and a phrase leaves the queue
\* only processed: no failure ends the run or drops a queued phrase.
Termination ==
    /\ <>(pc = "done" /\ queue = <<>>)
    /\ [][\A p \in Phrases : (InQueue(p) /\ ~InQueue(p)') => WasProcessed(p)']_vars

\* the request for the seed failed and a later node was still processed
TerminationWitness ==
    /\ pc = "done"
    /\ \E i \in Events("get_text") :
          /\ log[i].out # "ok"
          /\ log[i].phrase = args.auto_count_words
          /\ \E j \in Processed : j > i
    /\ \E i \in Events("get_links") : log[i].out = "none"

Links(name) == {site[name][k] : k \in 1..Len(site[name])}

\* the pages at most k links away from the page of the seed
RECURSIVE Within(_)
Within(k) ==
    IF k = 0 THEN {Replace(args.auto_count_words, " ", "_")}
    ELSE LET near == Within(k - 1) IN near \cup UNION {Links(n) : n \in near}

Hops(page) == CHOOSE k \in 0..args.depth :
                  page \in Within(k) /\ \A j \in 0..(k - 1) : page \notin Within(j)

PageOf(i) == Replace(log[i].phrase, " ", "_")

RECURSIVE MergedPages(_, _)
MergedPages(d, pages) ==
    IF pages = {} THEN d
    ELSE LET page == CHOOSE x \in pages : TRUE
         IN  MergedPages(Merged(d, PageText(page), 1), pages \ {page})

\* C7: when all requests succeed, at the end the processed pages are the
\* pages at most args.depth links from the seed, each processed once at its
\* number of hops, and the store has grown by the text of each, once.
CrawlCompleteness ==
    (pc = "done" /\ DOMAIN site = PageNames) =>
        /\ {PageOf(i) : i \in Processed} = Within(args.depth)
        /\ \A i, j \in Processed : PageOf(i) = PageOf(j) => i = j
        /\ \A i \in Processed : log[i].n = Hops(PageOf(i))
        /\ Store(file) = MergedPages(Store(file0), Within(args.depth))

\* C8: while the program waits or is in a request, and when it was
\* interrupted there, the file holds the store as it was at the start plus
\* the text of every page merged so far.
DurableProgress ==
    (Crawling /\ pc \in {"get_text", "get_links", "sleep", "interrupted"}) =>
        /\ Store(file) = MergedFrom(Store(file0), 1)
        /\ Events("merge") # {} => file.state = "valid"

\* the program was interrupted after two merges and a failed request
DurableProgressWitness ==
    /\ pc = "interrupted"
    /\ Cardinality(Events("merge")) >= 2
    /\ \E i \in Events("get_text") : log[i].out # "ok"
    /\ file0.state = "valid"

\* C9: no stored count ever decreases and no stored word disappears.
MonotonicCounts ==
    [][\A w \in DOMAIN Store(file) :
          w \in DOMAIN Store(file') /\ Store(file')[w] >= Store(file)[w]]_vars

\* two runs merged into a store that held counts before
MonotonicCountsWitness ==
    /\ args.count_words # None
    /\ Cardinality(Events("merge")) = 2
    /\ file0.state = "valid"
    /\ \E w \in DOMAIN Store(file) : Store(file)[w] >= 3

\* C12: no load of an unreadable store file ends the program, whichever
\* action loads it: the file counts as an empty store, and once a text was
\* merged the file is a valid store of exactly the merged counts.
StoreResilience ==
    file0 = CorruptFile =>
        /\ \A i \in Events("analyze") : log[i].out # "raised"
        /\ log # <<>> => exit_code = 0
        /\ Events("merge") # {} =>
               /\ file.state = "valid"
               /\ file.data = Merged([w \in {} |-> 0], text, Cardinality(Events("merge")))

IdentifierNormalization ==
    Crawling =>
        /\ \A k \in 1..Len(queue) : ~Contains(queue[k][1], " ")
        /\ \A p \in visited : ~Contains(p, " ")
        /\ \A i, j \in Events("get_text") : PageOf(i) = PageOf(j) => i = j
        /\ \A i, j \in Events("merge") : PageOf(i) = PageOf(j) => i = j

\* the links of the page of the node in work
new_links == site[PageOf(Len(log))]

NotVisited(link) == link \notin visited

Entries(links, depth) == [k \in 1..Len(links) |-> <<links[k], depth>>]

FailedNodeNotExpanded ==
    Crawling =>
        \A i \in Events("get_text") :
            log[i].out = "none" =>
                /\ \A j \in Events("merge") : log[j].phrase # log[i].phrase
                /\ \A j \in Events("get_links") : log[j].phrase # log[i].phrase

Returned(method) ==
    /\ pc = "returned"
    /\ log[Len(log)].ev = method
    /\ log[Len(log)].out = "ok"

\* the href begins with /wiki/ and holds no colon
Accepted(href) ==
    /\ Len(href) >= 6
    /\ \A i \in 1..6 : href[i] = Prefix[i]
    /\ \A i \in 1..Len(href) : href[i] # ":"

\* the href without its first six characters
Identifier(href) == [i \in 1..(Len(href) - 6) |-> href[i + 6]]

\* C11: the links returned for a page are, in order and with duplicates,
\* the hrefs that begin with /wiki/ and hold no colon, each without that
\* leading prefix and otherwise unchanged.
LinkFilter ==
    Returned("get_internal_links") =>
        LET accepted == SelectSeq(html_content.hrefs, Accepted)
        IN  result = [i \in 1..Len(accepted) |-> Identifier(accepted[i])]

\* C13: for a page with k tables, get_table with number n returns the n-th
\* table of the page when 1 <= n <= k and None when n <= 0 or n > k.
TableIndexing ==
    Returned("get_table") =>
        LET k == Len(html_content.tables)
            n == log[Len(log)].n
        IN  /\ (1 <= n /\ n <= k) =>
                   /\ result = html_content.tables[n]
                   /\ \A m \in 1..k :
                          html_content.tables[m] # html_content.tables[n] =>
                              result # html_content.tables[m]
            /\ (n <= 0 \/ n > k) => result = None

\* the second of two different tables was returned
TableIndexingWitness ==
    /\ Returned("get_table")
    /\ html_content.tables = <<<<"T", "1">>, <<"T", "2">>>>
    /\ log[Len(log)].n = 2
    /\ result = <<"T", "2">>

\* the file name of a page: the phrase with "_" for " ", then ".html"
FileName(phrase) ==
    [i \in 1..Len(phrase) |-> IF phrase[i] = " " THEN "_" ELSE phrase[i]]
        \o <<".", "h", "t", "m", "l">>

\* C15: in local mode the fetch of phrase p opens the file named after p in
\* the configured directory, so fetches of different pages open different
\* files.
LocalFileFetch ==
    \A i \in Events("open") :
        log[i].out = scraper.local_file_path \o <<"/">> \o FileName(log[i].phrase)

\* C10: after k merges of text the store holds, for every word, its count
\* at the start plus k times the number of tokens of text that are that
\* word once stripped and lowered, and it holds no other key.
Tokenization ==
    args.count_words # None =>
        Store(file) = Merged(Store(file0), text, Cardinality(Events("merge")))

\* a text with stripped punctuation, an upper-case letter and a token of
\* punctuation only was merged twice
TokenizationWitness ==
    /\ args.count_words # None
    /\ Cardinality(Events("merge")) = 2
    /\ text = <<"'", "A", ".", " ">>
    /\ Store(file) = Merged(Store(file0), text, 1 + 1)
    /\ Count(Store(file), <<"a">>) = Count(Store(file0), <<"a">>) + 2

====
